---- MODULE Spec2Model ----
(***************************************************************************)
(* A model of tafra.py: the Tafra table (a dict of equal-length numpy      *)
(* arrays with a parallel dict of type tags) and the GroupBy / Transform / *)
(* IterateBy aggregations.                                                 *)
(*                                                                         *)
(* numpy arrays are modelled as views onto buffers of a heap, so that the  *)
(* sharing of storage between tables is part of the state.  Python scalars *)
(* are records [ty, n, s]; type names are sequences of characters, so that *)
(* _format_type's substring tests are computed as the code computes them.  *)
(***************************************************************************)
EXTENDS Integers, Sequences, FiniteSets, TLC

VARIABLES heap, tabs, last, out

vars == <<heap, tabs, last, out>>

(***************************************************************************)
(* Bounds of the model.                                                    *)
(***************************************************************************)
\* longest column of an input mapping
MaxRows == 1
\* largest integer literal that int() / float() parse in the model
MaxNum == 3

(***************************************************************************)
(* Python scalars.                                                         *)
(***************************************************************************)
I(n) == [ty |-> "int", n |-> n, s |-> ""]
F(n) == [ty |-> "float", n |-> n, s |-> ""]
S(s) == [ty |-> "str", n |-> 0, s |-> s]
NaN == [ty |-> "float", n |-> 0, s |-> "nan"]
\* the complex number n*1j
J(n) == [ty |-> "complex", n |-> n, s |-> ""]
\* the integer a C cast of NaN produces: its value is not defined
IntOfNaN == [ty |-> "int", n |-> 0, s |-> "undefined"]

\* Python's None
None == [ty |-> "none", n |-> 0, s |-> ""]

Err(kind) == [err |-> kind]
IsErr(r) == "err" \in DOMAIN r

IsNaN(v) == v.ty = "float" /\ v.s = "nan"
IsNum(v) == v.ty \in {"int", "float"} /\ v.s = ""

\* Python's == on scalars: numbers compare by value, NaN equals nothing
PyEq(a, b) ==
    \/ IsNum(a) /\ IsNum(b) /\ a.n = b.n
    \/ a.ty = "str" /\ b.ty = "str" /\ a.s = b.s

Digit(d) ==
    CASE d = 0 -> "0" [] d = 1 -> "1" [] d = 2 -> "2" [] d = 3 -> "3"
      [] d = 4 -> "4" [] d = 5 -> "5" [] d = 6 -> "6" [] d = 7 -> "7"
      [] d = 8 -> "8" [] OTHER -> "9"

RECURSIVE IntToStr(_)
IntToStr(n) == IF n < 10 THEN Digit(n) ELSE IntToStr(n \div 10) \o Digit(n % 10)

\* str(x) of a scalar
PyStr(v) ==
    CASE v.ty = "str" -> v.s
      [] v.ty = "int" -> IF v.s = "" THEN IntToStr(v.n) ELSE v.s
      [] v.ty = "complex" -> IntToStr(v.n) \o "j"
      [] v.ty = "none" -> "None"
      [] OTHER -> IF IsNaN(v) THEN "nan" ELSE IntToStr(v.n) \o ".0"

IsIntLiteral(s) == \E n \in 0..MaxNum : IntToStr(n) = s
IntLiteral(s) == CHOOSE n \in 0..MaxNum : IntToStr(n) = s
IsFloatLiteral(s) == \E n \in 0..MaxNum : IntToStr(n) \o ".0" = s
FloatLiteral(s) == CHOOSE n \in 0..MaxNum : IntToStr(n) \o ".0" = s

(***************************************************************************)
(* Type names, as sequences of characters.                                 *)
(***************************************************************************)
T_int == <<"i", "n", "t">>
T_float == <<"f", "l", "o", "a", "t">>
T_bool == <<"b", "o", "o", "l">>
T_str == <<"s", "t", "r">>
T_date == <<"d", "a", "t", "e">>
T_object == <<"o", "b", "j", "e", "c", "t">>

\* str(dtype) of the numpy element types of the model
D_int64 == <<"i", "n", "t", "6", "4">>
D_float64 == <<"f", "l", "o", "a", "t", "6", "4">>
\* a unicode array; the model's strings all fit its width
D_str == <<"<", "U", "3">>
D_object == <<"o", "b", "j", "e", "c", "t">>
D_complex128 == <<"c", "o", "m", "p", "l", "e", "x", "1", "2", "8">>

\* the keys of TAFRA_TYPE
TAFRA_TYPE == {T_int, T_float, T_bool, T_str, T_date, T_object}

\* Python's `sub in s`
Contains(sub, s) ==
    \E i \in 1..(Len(s) - Len(sub) + 1) : SubSeq(s, i, i + Len(sub) - 1) = sub

_format_type(t) ==
    IF Contains(T_int, t) THEN T_int
    ELSE IF Contains(T_float, t) THEN T_float
    ELSE IF Contains(T_bool, t) THEN T_bool
    ELSE IF Contains(T_str, t) THEN T_str
    ELSE IF Contains(<<"<", "U">>, t) THEN T_str
    ELSE IF Contains(T_date, t) THEN T_date
    ELSE IF Contains(<<"<", "M">>, t) THEN T_date
    ELSE IF Contains(T_object, t) THEN T_object
    ELSE IF Contains(<<"O">>, t) THEN T_object
    ELSE t

(***************************************************************************)
(* numpy arrays: an element type and a sequence of scalars.                *)
(***************************************************************************)
Array(dtype, vals) == [dtype |-> dtype, vals |-> vals]

\* int(x) as ndarray.astype(int) applies it to one element of an array; of a
\* complex number it keeps the real part (with a ComplexWarning)
CastInt(dtype, v) ==
    CASE v.ty = "int" -> v
      [] v.ty = "float" ->
           IF IsNaN(v) THEN (IF dtype = D_object THEN Err("ValueError") ELSE IntOfNaN)
           ELSE [v EXCEPT !.ty = "int"]
      [] v.ty = "complex" -> I(0)
      [] OTHER ->
           IF IsIntLiteral(v.s) THEN I(IntLiteral(v.s)) ELSE Err("ValueError")

\* float(x) as ndarray.astype(float) applies it
CastFloat(dtype, v) ==
    CASE v.ty = "float" -> v
      [] v.ty = "int" -> [v EXCEPT !.ty = "float"]
      [] v.ty = "complex" -> F(0)
      [] OTHER ->
           IF IsIntLiteral(v.s) THEN F(IntLiteral(v.s))
           ELSE IF IsFloatLiteral(v.s) THEN F(FloatLiteral(v.s))
           ELSE IF v.s = "nan" THEN NaN
           ELSE Err("ValueError")

CastStr(dtype, v) == S(PyStr(v))

CastObject(dtype, v) == v

\* storing the scalar v into an array of element type dtype
CastElem(dtype, v) ==
    CASE dtype = D_int64 -> CastInt(D_object, v)
      [] dtype = D_float64 -> CastFloat(D_object, v)
      [] dtype = D_str -> CastStr(D_object, v)
      [] OTHER -> v

AnyErr(seq) == \E i \in DOMAIN seq : IsErr(seq[i])
FirstErr(seq) == seq[CHOOSE i \in DOMAIN seq : IsErr(seq[i]) /\ \A j \in 1..(i - 1) : ~IsErr(seq[j])]

\* TAFRA_TYPE[t](array): a new array, or the exception raised.  The model's
\* inputs name no column 'bool' or 'date'.
_apply_type(t, array) ==
    LET cast(v) ==
            CASE t = T_int -> CastInt(array.dtype, v)
              [] t = T_float -> CastFloat(array.dtype, v)
              [] t = T_str -> CastStr(array.dtype, v)
              [] OTHER -> CastObject(array.dtype, v)
        dtype ==
            CASE t = T_int -> D_int64
              [] t = T_float -> D_float64
              [] t = T_str -> D_str
              [] OTHER -> D_object
        vals == [i \in 1..Len(array.vals) |-> cast(array.vals[i])]
    IN  IF t \notin TAFRA_TYPE THEN Err("KeyError")
        ELSE IF t \in {T_bool, T_date} THEN Err("NotModelled")
        ELSE IF AnyErr(vals) THEN FirstErr(vals)
        ELSE Array(dtype, vals)

(***************************************************************************)
(* The heap of array buffers, and views onto them.  A view is a buffer id  *)
(* and the positions of the buffer it shows: a whole array, or a slice.    *)
(***************************************************************************)
NewId(h) ==
    CHOOSE i \in 1..(Cardinality(DOMAIN h) + 1) :
        i \notin DOMAIN h /\ \A j \in 1..(i - 1) : j \in DOMAIN h

HeapPut(h, arr) == (NewId(h) :> arr) @@ h

WholeView(id, n) == [buf |-> id, idx |-> [i \in 1..n |-> i]]

\* the array a view shows
Read(h, ref) ==
    Array(h[ref.buf].dtype, [i \in 1..Len(ref.idx) |-> h[ref.buf].vals[ref.idx[i]]])

\* ref[i] = v, with numpy's conversion of v to the element type (i from 0)
WriteElem(h, ref, i, v) ==
    [h EXCEPT ![ref.buf].vals[ref.idx[i + 1]] = CastElem(h[ref.buf].dtype, v)]

(***************************************************************************)
(* Python dicts, in insertion order: sequences of [k, v].                  *)
(***************************************************************************)
EmptyDict == <<>>
Keys(d) == {d[i].k : i \in DOMAIN d}
Has(d, k) == k \in Keys(d)
Get(d, k) == d[CHOOSE i \in DOMAIN d : d[i].k = k].v
Put(d, k, v) ==
    IF Has(d, k) THEN [i \in DOMAIN d |-> IF d[i].k = k THEN [k |-> k, v |-> v] ELSE d[i]]
    ELSE Append(d, [k |-> k, v |-> v])
Pop(d, k) == SelectSeq(d, LAMBDA e : e.k # k)

RECURSIVE DictUpdate(_, _)
DictUpdate(d, other) ==
    IF other = <<>> THEN d
    ELSE DictUpdate(Put(d, Head(other).k, Head(other).v), Tail(other))

(***************************************************************************)
(* class Tafra.  A method runs on st = [heap, data, dtypes, err]: the heap, *)
(* self._data (name -> view), self._dtypes (name -> tag) and the exception *)
(* that ended the method ("none" when it returned).  What a method changed *)
(* before it raised stays changed.                                         *)
(***************************************************************************)
Self(h, tab) == [heap |-> h, data |-> tab.data, dtypes |-> tab.dtypes, err |-> "none"]
Raise(st, e) == [st EXCEPT !.err = e]
Failed(st) == st.err # "none"

\* Tafra.rows
rows(data) == IF data = <<>> THEN 0 ELSE Len(data[1].v.idx)

\* Tafra._validate_types: [err, dtypes], the formatted mapping or ValueError
_validate_types(dtypes) ==
    LET _dtypes == [i \in DOMAIN dtypes |->
                       [k |-> dtypes[i].k, v |-> _format_type(dtypes[i].v)]]
    IN  IF \E i \in DOMAIN _dtypes : _dtypes[i].v \notin TAFRA_TYPE
        THEN [err |-> "ValueError", dtypes |-> EmptyDict]
        ELSE [err |-> "none", dtypes |-> DictUpdate(EmptyDict, _dtypes)]

\* the loop of Tafra.update_types over self._dtypes, from its i-th key on
RECURSIVE UpdateTypesLoop(_, _)
UpdateTypesLoop(st, i) ==
    IF i > Len(st.dtypes) THEN st
    ELSE LET column == st.dtypes[i].k IN
         IF ~Has(st.data, column) THEN Raise(st, "KeyError")
         ELSE LET arr == Read(st.heap, Get(st.data, column)) IN
              IF _format_type(arr.dtype) # st.dtypes[i].v
              THEN LET new == _apply_type(st.dtypes[i].v, arr) IN
                   IF IsErr(new) THEN Raise(st, new.err)
                   ELSE UpdateTypesLoop(
                            [st EXCEPT !.heap = HeapPut(@, new),
                                       !.data = Put(@, column,
                                           WholeView(NewId(st.heap), Len(new.vals)))],
                            i + 1)
              ELSE UpdateTypesLoop(st, i + 1)

\* dtypes = None, the call without argument
NoArg == <<[k |-> "", v |-> <<>>]>>

\* update_types with the loop run before self._dtypes is updated
update_types_late(st, dtypes) ==
    IF dtypes = NoArg THEN UpdateTypesLoop(st, 1)
    ELSE LET valid == _validate_types(dtypes)
             looped == UpdateTypesLoop(st, 1)
         IN  IF valid.err # "none" THEN Raise(st, valid.err)
             ELSE IF Failed(looped) THEN looped
             ELSE [looped EXCEPT !.dtypes = DictUpdate(@, valid.dtypes)]

\* Tafra.update_types(dtypes)
update_types(st, dtypes) ==
    IF dtypes = NoArg THEN UpdateTypesLoop(st, 1)
    ELSE LET valid == _validate_types(dtypes) IN
         IF valid.err # "none" THEN Raise(st, valid.err)
         ELSE UpdateTypesLoop([st EXCEPT !.dtypes = DictUpdate(@, valid.dtypes)], 1)

\* Tafra.coalesce_types
RECURSIVE coalesce_types(_, _)
coalesce_types(st, i) ==
    IF i > Len(st.data) THEN st
    ELSE LET column == st.data[i].k IN
         IF ~Has(st.dtypes, column)
         THEN coalesce_types(
                  [st EXCEPT !.dtypes = Put(@, column,
                       _format_type(st.heap[st.data[i].v.buf].dtype))], i + 1)
         ELSE coalesce_types(st, i + 1)

\* Tafra.__post_init__ on the fields the generated __init__ has set
__post_init__(h, data, dtypes) ==
    LET st == [heap |-> h, data |-> data, dtypes |-> dtypes, err |-> "none"] IN
    IF \E i \in DOMAIN data : Len(data[i].v.idx) # Len(data[1].v.idx)
    THEN Raise(st, "RowCountError")
    ELSE LET typed == IF dtypes # <<>> THEN update_types(st, NoArg) ELSE st IN
         IF Failed(typed) THEN typed ELSE coalesce_types(typed, 1)

\* _validate without its comparison of len(value) with self.rows
_validate_unchecked(st, value) == st

\* Tafra._validate of a 1-dimensional ndarray value
_validate(st, value) ==
    IF Len(value.idx) # rows(st.data) THEN Raise(st, "RowCountError") ELSE st

\* Tafra.__setitem__, value a view of an array of the heap
__setitem__(st, item, value) ==
    LET checked == _validate(st, value) IN
    IF Failed(checked) THEN checked
    ELSE [st EXCEPT !.data = Put(@, item, value),
                    !.dtypes = Put(@, item, _format_type(st.heap[value.buf].dtype))]

\* bool(array): the truth of its one element, False when it is empty, and a
\* ValueError when it has more elements
Truth(arr) ==
    IF Len(arr.vals) > 1 THEN "ValueError"
    ELSE IF arr.vals = <<>> THEN "False"
    ELSE IF arr.vals[1].ty = "str" /\ arr.vals[1].s = "" THEN "False"
    ELSE IF IsNum(arr.vals[1]) /\ arr.vals[1].n = 0 THEN "False"
    ELSE "True"

\* Tafra.__getattr__ behind Python's lookup in the instance dictionary attrs
\* (the names of the model are no attributes of the class): the view read,
\* or the exception
getattr(st, attrs, attr) ==
    IF Has(attrs, attr) THEN Get(attrs, attr)
    ELSE IF Has(st.data, attr) THEN Get(st.data, attr)
    ELSE Err("KeyError")

\* Tafra.__setattr__, attrs the instance dictionary: [st, attrs].  The
\* attribute _init is set nowhere in tafra.py.
__setattr__(st, attrs, attr, value) ==
    LET plain == [st |-> st, attrs |-> Put(attrs, attr, value)]
        _init == Truth(Read(st.heap, Get(attrs, "_init")))
    IN  IF ~Has(attrs, "_init") THEN plain
        ELSE IF _init = "ValueError" THEN [st |-> Raise(st, "ValueError"), attrs |-> attrs]
        ELSE IF _init = "False" THEN plain
        ELSE [st |-> __setitem__(st, attr, value), attrs |-> attrs]

\* RECORD_TYPE[tag](x), x the Python scalar ndarray.item() hands out; the
\* model's tables have no column of tag bool or date
RECORD_TYPE(tag, x) ==
    CASE tag = T_int -> [x EXCEPT !.ty = "int"]
      [] tag = T_float -> [x EXCEPT !.ty = "float"]
      [] tag \in {T_str, T_object} -> S(PyStr(x))
      [] tag \in {T_bool, T_date} -> Err("NotModelled")
      [] OTHER -> Err("KeyError")

\* Tafra._cast_records of the one-element array holding x
_cast_records(dtype, x, cast_null) ==
    LET value == RECORD_TYPE(dtype, x) IN
    IF IsErr(value) THEN value
    ELSE IF cast_null /\ dtype = T_float /\ IsNaN(x) THEN None
    ELSE value

\* the body of Tafra.to_records run from its start to its end: [err, tuples],
\* the tuples yielded and the exception that ended it
to_records(st, given, columns, cast_null) ==
    LET _columns == IF given THEN columns ELSE [i \in DOMAIN st.data |-> st.data[i].k]
        cell(c, row) ==
            IF ~Has(st.dtypes, c) \/ ~Has(st.data, c) THEN Err("KeyError")
            ELSE _cast_records(Get(st.dtypes, c),
                               Read(st.heap, Get(st.data, c)).vals[row], cast_null)
        tuples == [row \in 1..rows(st.data) |->
                      [k \in DOMAIN _columns |-> cell(_columns[k], row)]]
    IN  IF \E row \in DOMAIN tuples : AnyErr(tuples[row])
        THEN [err |-> FirstErr(tuples[CHOOSE row \in DOMAIN tuples :
                          /\ AnyErr(tuples[row])
                          /\ \A q \in 1..(row - 1) : ~AnyErr(tuples[q])]).err,
              tuples |-> <<>>]
        ELSE [err |-> "none", tuples |-> tuples]

\* a generator of to_records consumed to its end although it had ended
RunGenerator_restarted(st, given, columns, cast_null, fresh) ==
    to_records(st, given, columns, cast_null)

\* tuple(g), g the generator a to_records call handed back: a fresh generator
\* runs the body, one that has ended yields nothing
RunGenerator(st, given, columns, cast_null, fresh) ==
    IF fresh THEN to_records(st, given, columns, cast_null)
    ELSE [err |-> "none", tuples |-> <<>>]

\* Tafra.delete
delete(st, column) ==
    [st EXCEPT !.data = Pop(@, column), !.dtypes = Pop(@, column)]

\* the loop of Tafra.update over other._data, from its i-th item on
RECURSIVE UpdateLoop(_, _, _, _)
UpdateLoop(st, other, n, i) ==
    IF i > Len(other.data) THEN st
    ELSE IF Len(other.data[i].v.idx) # n THEN Raise(st, "RowCountError")
    ELSE UpdateLoop([st EXCEPT !.data = Put(@, other.data[i].k, other.data[i].v)],
                    other, n, i + 1)

\* Tafra.update(other)
update(st, other) ==
    LET copied == UpdateLoop(st, other, rows(st.data), 1) IN
    IF Failed(copied) THEN copied ELSE update_types(copied, other.dtypes)

\* every column handed over as it is, without ndarray.copy()
CopyColumns_shared(h, data, i) == [heap |-> h, data |-> data]

\* ndarray.copy() of every column: each a new buffer
RECURSIVE CopyColumns(_, _, _)
CopyColumns(h, data, i) ==
    IF i > Len(data) THEN [heap |-> h, data |-> data]
    ELSE LET arr == Read(h, data[i].v) IN
         CopyColumns(HeapPut(h, arr),
                     [data EXCEPT ![i].v = WholeView(NewId(h), Len(arr.vals))], i + 1)

\* Tafra.copy: the state of the new table
copy(st) ==
    LET cp == CopyColumns(st.heap, st.data, 1) IN
    __post_init__(cp.heap, cp.data, st.dtypes)

\* value[a:b] of every column: views of the same buffers (a, b >= 0)
SliceView(ref, a, b) ==
    [buf |-> ref.buf,
     idx |-> SubSeq(ref.idx, a + 1, IF b < Len(ref.idx) THEN b ELSE Len(ref.idx))]

\* Tafra._slice: the state of the new table
_slice(st, a, b) ==
    __post_init__(st.heap,
                  [i \in DOMAIN st.data |->
                      [k |-> st.data[i].k, v |-> SliceView(st.data[i].v, a, b)]],
                  st.dtypes)

\* the positions (from 0) an index array selects: those of its True entries,
\* or its integers
Selected(index) ==
    IF index.kind = "bool"
    THEN LET RECURSIVE Pick(_)
             Pick(i) == IF i > Len(index.vals) THEN <<>>
                        ELSE IF index.vals[i] THEN <<i - 1>> \o Pick(i + 1)
                        ELSE Pick(i + 1)
         IN  Pick(1)
    ELSE index.vals

\* value[index] of one array: a new array (numpy's advanced indexing copies),
\* or IndexError
Gather(arr, index) ==
    LET sel == Selected(index) IN
    IF index.kind = "bool" /\ Len(index.vals) # Len(arr.vals) THEN Err("IndexError")
    ELSE IF \E i \in DOMAIN sel : sel[i] >= Len(arr.vals) THEN Err("IndexError")
    ELSE Array(arr.dtype, [i \in DOMAIN sel |-> arr.vals[sel[i] + 1]])

\* the dict comprehension with every value[index] a view of value's buffer
GatherColumns_views(h, data, index, i) ==
    LET sel == Selected(index)
        n == rows(data)
    IN  IF (index.kind = "bool" /\ Len(index.vals) # n) \/ \E j \in DOMAIN sel : sel[j] >= n
        THEN [heap |-> h, data |-> data, err |-> "IndexError"]
        ELSE [heap |-> h,
              data |-> [c \in DOMAIN data |->
                           [k |-> data[c].k,
                            v |-> [buf |-> data[c].v.buf,
                                   idx |-> [j \in DOMAIN sel |->
                                               data[c].v.idx[sel[j] + 1]]]]],
              err |-> "none"]

\* the dict comprehension {column: value[index] ...}: each a new buffer
RECURSIVE GatherColumns(_, _, _, _)
GatherColumns(h, data, index, i) ==
    IF i > Len(data) THEN [heap |-> h, data |-> data, err |-> "none"]
    ELSE LET arr == Gather(Read(h, data[i].v), index) IN
         IF IsErr(arr) THEN [heap |-> h, data |-> data, err |-> arr.err]
         ELSE GatherColumns(HeapPut(h, arr),
                            [data EXCEPT ![i].v = WholeView(NewId(h), Len(arr.vals))],
                            index, i + 1)

\* Tafra._index: the state of the new table
_index(st, index) ==
    IF index.ndim # 1 THEN Raise(st, "ValueError")
    ELSE LET g == GatherColumns(st.heap, st.data, index, 1) IN
         IF g.err # "none" THEN Raise(st, g.err)
         ELSE __post_init__(g.heap, g.data, st.dtypes)

(***************************************************************************)
(* The reductions the model's callers pass: Python's sum, len and max.     *)
(***************************************************************************)
\* the strings of the model in Python's (lexicographic) order
StrOrder == <<"0", "1", "2", "3", "4", "5", "6", "7", "8", "9", "nan", "one", "two">>
StrRank(x) == CHOOSE i \in DOMAIN StrOrder : StrOrder[i] = x

\* a > b, or TypeError
PyGt(a, b) ==
    IF a.ty = "str" /\ b.ty = "str" THEN [err |-> "none", v |-> StrRank(a.s) > StrRank(b.s)]
    ELSE IF a.ty \in {"int", "float"} /\ b.ty \in {"int", "float"}
         THEN [err |-> "none", v |-> ~IsNaN(a) /\ ~IsNaN(b) /\ a.n > b.n]
    ELSE [err |-> "TypeError", v |-> FALSE]

\* a + b, or TypeError
PyAdd(a, b) ==
    IF a.ty \in {"int", "float"} /\ b.ty \in {"int", "float"}
    THEN IF IsNaN(a) \/ IsNaN(b) THEN NaN
         ELSE IF a.ty = "float" \/ b.ty = "float" THEN F(a.n + b.n) ELSE I(a.n + b.n)
    ELSE Err("TypeError")

RECURSIVE SumFrom(_, _)
SumFrom(acc, vals) ==
    IF IsErr(acc) \/ vals = <<>> THEN acc ELSE SumFrom(PyAdd(acc, Head(vals)), Tail(vals))

RECURSIVE MaxFrom(_, _)
MaxFrom(cur, vals) ==
    IF vals = <<>> THEN cur
    ELSE LET gt == PyGt(Head(vals), cur) IN
         IF gt.err # "none" THEN Err(gt.err)
         ELSE MaxFrom(IF gt.v THEN Head(vals) ELSE cur, Tail(vals))

\* fn(array) for the builtin named fn: a scalar, or the exception
Reduce(fn, vals) ==
    CASE fn = "sum" -> SumFrom(I(0), vals)
      [] fn = "len" -> I(Len(vals))
      [] OTHER -> IF vals = <<>> THEN Err("ValueError") ELSE MaxFrom(Head(vals), Tail(vals))

(***************************************************************************)
(* class AggMethod and GroupBy, Transform, IterateBy.  An aggregation is a *)
(* dict rename -> [fn, col, pair]: pair says the caller gave (fn, col),    *)
(* and not fn alone.                                                       *)
(***************************************************************************)
\* AggMethod.__post_init__: self._aggregation
AggInit(aggregation) ==
    [i \in DOMAIN aggregation |->
        [k |-> aggregation[i].k,
         v |-> [fn |-> aggregation[i].v.fn,
                col |-> IF aggregation[i].v.pair THEN aggregation[i].v.col
                        ELSE aggregation[i].k]]]

\* AggMethod._validate: the exception raised, or "none"
AggValidate(data, cols, agg) ==
    IF \E i \in DOMAIN cols : ~Has(data, cols[i]) THEN "KeyError"
    ELSE IF \E i \in DOMAIN agg : ~Has(data, agg[i].v.col) THEN "KeyError"
    ELSE "none"

\* equality of two dict keys that are tuples of scalars of different rows
KeyEq(u, w) == \A k \in DOMAIN u : PyEq(u[k], w[k])

\* unique_groups with the empty tuple as the one key of an empty column list
unique_groups_keyed(tv, cols, n) ==
    IF n > 0 /\ cols = <<>> THEN << <<>> >>
    ELSE LET key(r) == [k \in DOMAIN cols |-> Get(tv, cols[k]).vals[r]]
             RECURSIVE FromKeys(_, _)
             FromKeys(d, r) ==
                 IF r > n THEN d
                 ELSE IF \E i \in DOMAIN d : KeyEq(d[i], key(r)) THEN FromKeys(d, r + 1)
                 ELSE FromKeys(Append(d, key(r)), r + 1)
         IN  FromKeys(<<>>, 1)

\* AggMethod.unique_groups on the arrays tv (name -> array) of n rows: zip
\* of no columns yields no key
unique_groups(tv, cols, n) ==
    LET key(r) == [k \in DOMAIN cols |-> Get(tv, cols[k]).vals[r]]
        RECURSIVE FromKeys(_, _)
        FromKeys(d, r) ==
            IF r > n THEN d
            ELSE IF \E i \in DOMAIN d : KeyEq(d[i], key(r)) THEN FromKeys(d, r + 1)
            ELSE FromKeys(Append(d, key(r)), r + 1)
    IN  IF cols = <<>> THEN <<>> ELSE FromKeys(<<>>, 1)

\* which_rows with the first group-by column compared alone
which_rows_first(tv, cols, u, upto, n) ==
    [r \in 1..n |-> PyEq(Get(tv, cols[1]).vals[r], u[1])]

\* which_rows after the first upto group-by columns have been compared with u
which_rows(tv, cols, u, upto, n) ==
    [r \in 1..n |-> \A k \in 1..upto : PyEq(Get(tv, cols[k]).vals[r], u[k])]

\* array[mask]
Masked(vals, mask) ==
    LET RECURSIVE Pick(_)
        Pick(r) == IF r > Len(vals) THEN <<>>
                   ELSE IF mask[r] THEN <<vals[r]>> \o Pick(r + 1) ELSE Pick(r + 1)
    IN  Pick(1)

\* np.empty: n cells of whatever the memory held (None for objects)
NpEmpty(n, dtype, garbage) ==
    Array(dtype, [i \in 1..n |-> IF dtype = D_object THEN None
                                  ELSE CastElem(dtype, garbage)])

\* AggMethod.result_factory with fn = np.empty(n, dtype of the source column)
result_factory(tv, cols, agg, n, garbage) ==
    LET RECURSIVE Fill(_, _)
        Fill(d, pairs) ==
            IF pairs = <<>> THEN d
            ELSE Fill(Put(d, Head(pairs).k,
                          NpEmpty(n, Get(tv, Head(pairs).v).dtype, garbage)),
                      Tail(pairs))
    IN  Fill(EmptyDict,
             [i \in DOMAIN cols |-> [k |-> cols[i], v |-> cols[i]]]
                 \o [i \in DOMAIN agg |-> [k |-> agg[i].k, v |-> agg[i].v.col]])

\* result[name][r] = v for every row r (from 1) of rs: rs = [err, res]
Store(rs, name, rs_rows, v) ==
    LET arr == Get(rs.res, name)
        cast == CastElem(arr.dtype, v)
    IN  IF rs.err # "none" \/ rs_rows = {} THEN rs
        ELSE IF IsErr(cast) THEN [rs EXCEPT !.err = cast.err]
        ELSE [rs EXCEPT !.res = Put(@, name,
                 Array(arr.dtype, [r \in DOMAIN arr.vals |->
                     IF r \in rs_rows THEN cast ELSE arr.vals[r]]))]

\* result[rename][rows] = fn(tafra[col][which_rows]) for the aggregations from j on
RECURSIVE StoreAggs(_, _, _, _, _, _)
StoreAggs(rs, tv, agg, mask, rs_rows, j) ==
    IF rs.err # "none" \/ j > Len(agg) THEN rs
    ELSE LET v == Reduce(agg[j].v.fn, Masked(Get(tv, agg[j].v.col).vals, mask)) IN
         IF IsErr(v) THEN [rs EXCEPT !.err = v.err]
         ELSE StoreAggs(Store(rs, agg[j].k, rs_rows, v), tv, agg, mask, rs_rows, j + 1)

\* the loops of GroupBy.apply over unique, from group i (from 1) on
RECURSIVE GroupByLoop(_, _, _, _, _, _, _)
GroupByLoop(rs, tv, cols, agg, unique, n, i) ==
    IF rs.err # "none" \/ i > Len(unique) THEN rs
    ELSE LET u == unique[i]
             RECURSIVE Keys1(_, _)
             Keys1(r, k) == IF k > Len(cols) THEN r
                            ELSE Keys1(Store(r, cols[k], {i}, u[k]), k + 1)
         IN  GroupByLoop(
                 StoreAggs(Keys1(rs, 1), tv, agg, which_rows(tv, cols, u, Len(cols), n),
                           {i}, 1),
                 tv, cols, agg, unique, n, i + 1)

\* the loops of Transform.apply over unique, from group i (from 1) on
RECURSIVE TransformLoop(_, _, _, _, _, _, _)
TransformLoop(rs, tv, cols, agg, unique, n, i) ==
    IF rs.err # "none" \/ i > Len(unique) THEN rs
    ELSE LET u == unique[i]
             RECURSIVE Keys1(_, _)
             Keys1(r, k) ==
                 IF r.err # "none" \/ k > Len(cols) THEN r
                 ELSE LET mask == which_rows(tv, cols, u, k, n)
                          src == Get(tv, cols[k]).vals
                          arr == Get(r.res, cols[k])
                          cast == [q \in 1..n |-> CastElem(arr.dtype, src[q])]
                      IN  IF \E q \in 1..n : mask[q] /\ IsErr(cast[q])
                          THEN [r EXCEPT !.err = "ValueError"]
                          ELSE Keys1([r EXCEPT !.res = Put(@, cols[k],
                                        Array(arr.dtype, [q \in 1..n |->
                                            IF mask[q] THEN cast[q] ELSE arr.vals[q]]))],
                                     k + 1)
             full == which_rows(tv, cols, u, Len(cols), n)
         IN  TransformLoop(
                 StoreAggs(Keys1(rs, 1), tv, agg, full, {q \in 1..n : full[q]}, 1),
                 tv, cols, agg, unique, n, i + 1)

(***************************************************************************)
(* The state: the heap, the tables the program holds (by variable name),   *)
(* the last call with the exception it raised, and out: what the last      *)
(* aggregation call handed back, a sequence of tuples that end in a table  *)
(* (the table group_by or transform returned, or the tuples iterate_by     *)
(* yielded).                                                               *)
(***************************************************************************)
NoTable == [absent |-> TRUE]
Exists(tab) == "data" \in DOMAIN tab
Table(st) == [data |-> st.data, dtypes |-> st.dtypes]

\* the variables that hold tables; d holds the instance dictionary of t,
\* without _data and _dtypes: the attributes set on t, name -> array
SlotOrder == <<"t", "c", "s", "v", "u", "d">>
Slots == {SlotOrder[i] : i \in DOMAIN SlotOrder}

RECURSIVE Flatten(_)
Flatten(seqs) == IF seqs = <<>> THEN <<>> ELSE Head(seqs) \o Flatten(Tail(seqs))

RECURSIVE Distinct(_)
Distinct(seq) ==
    IF seq = <<>> THEN <<>>
    ELSE LET init == Distinct(SubSeq(seq, 1, Len(seq) - 1))
             x == seq[Len(seq)]
         IN  IF \E i \in DOMAIN init : init[i] = x THEN init ELSE Append(init, x)

\* the positions of buffer b that some view of the tables shows, in order
Shown(b, views) ==
    LET used == UNION {{views[i].idx[j] : j \in DOMAIN views[i].idx} :
                          i \in {i \in DOMAIN views : views[i].buf = b}}
        RECURSIVE Asc(_)
        Asc(p) == IF \A q \in used : q < p THEN <<>>
                  ELSE IF p \in used THEN <<p>> \o Asc(p + 1) ELSE Asc(p + 1)
    IN  Asc(1)

\* the table of an item of out: the last component of the tuple
TabOf(item) == item[Len(item)]

ViewSeq(tab) == IF Exists(tab) THEN [i \in DOMAIN tab.data |-> tab.data[i].v] ELSE <<>>

\* What Python's reference counting leaves of the heap: the buffers some
\* table still shows.  Buffer ids are addresses and the cells no view shows
\* cannot be read, so the buffers are numbered in the order the tables reach
\* them and hold only the cells some view shows.
Collect(h, tbs, o) ==
    LET views == Flatten([i \in DOMAIN SlotOrder |-> ViewSeq(tbs[SlotOrder[i]])])
                     \o Flatten([i \in DOMAIN o |-> ViewSeq(TabOf(o[i]))])
        live == Distinct([i \in DOMAIN views |-> views[i].buf])
        id(b) == CHOOSE i \in DOMAIN live : live[i] = b
        pos(b, p) == LET sh == Shown(b, views) IN CHOOSE j \in DOMAIN sh : sh[j] = p
        moved(tab) ==
            IF Exists(tab)
            THEN [tab EXCEPT !.data = [i \in DOMAIN tab.data |->
                     [k |-> tab.data[i].k,
                      v |-> [buf |-> id(tab.data[i].v.buf),
                             idx |-> [j \in DOMAIN tab.data[i].v.idx |->
                                 pos(tab.data[i].v.buf, tab.data[i].v.idx[j])]]]]]
            ELSE tab
    IN  [heap |-> [i \in DOMAIN live |->
                      LET sh == Shown(live[i], views) IN
                      Array(h[live[i]].dtype, [j \in DOMAIN sh |-> h[live[i]].vals[sh[j]]])],
         tabs |-> [sl \in Slots |-> moved(tbs[sl])],
         out |-> [i \in DOMAIN o |-> [o[i] EXCEPT ![Len(o[i])] = moved(@)]]]

\* no index array, and no element
NoIndex == [ndim |-> 0, kind |-> "none", vals |-> <<>>]
NoElem == [nth |-> 0, pos |-> 0, val |-> None]

\* no to_records call: its arguments (given: columns is not None) and the
\* tuples that tuple(g) made of its generator
NoRec == [given |-> FALSE, cast_null |-> TRUE, tuples |-> <<>>]

\* a call: the method, the variable it was called on (or bound its result
\* to), the exception it raised, and of its arguments the column name and
\* the lengths of the arrays passed
Call(op, slot, err, item, lens) ==
    [op |-> op, slot |-> slot, err |-> err, item |-> item, lens |-> lens,
     cols |-> <<>>, agg |-> <<>>, index |-> NoIndex, elem |-> NoElem,
     dtypes |-> <<>>, again |-> FALSE, rec |-> NoRec]

\* a call with a dtypes argument; again: the call before it was the same call
DTypesCall(op, slot, err, lens, dtypes, again) ==
    [Call(op, slot, err, "", lens) EXCEPT !.dtypes = dtypes, !.again = again]

\* a call of group_by, transform or iterate_by, with its arguments
AggCall(op, slot, err, cols, aggregation) ==
    [Call(op, slot, err, "", <<>>) EXCEPT !.cols = cols, !.agg = aggregation]

\* src[index], with its index array
IndexCall(dst, err, index) ==
    [Call("index", dst, err, "", <<>>) EXCEPT !.index = index]

\* the element write slot[item][pos] = val; slot "out" is the table of the
\* nth tuple of out
WriteCall(slot, nth, err, item, pos, val) ==
    [Call("write", slot, err, item, <<>>) EXCEPT
        !.elem = [nth |-> nth, pos |-> pos, val |-> val]]

\* the arrays a table shows, column by column, and its tags
Content(h, tab) ==
    IF Exists(tab)
    THEN [data |-> [i \in DOMAIN tab.data |->
                       [k |-> tab.data[i].k, v |-> Read(h, tab.data[i].v)]],
          dtypes |-> tab.dtypes]
    ELSE tab

\* the end of a call: the state it leaves
Finish(h, tbs, o, call) ==
    \E c \in {Collect(h, tbs, o)} :
    /\ heap' = c.heap
    /\ tabs' = c.tabs
    /\ out' = c.out
    /\ last' = call

\* a method that mutates self ended in the state st: self keeps what it changed
Mutated(slot, op, ended, item, lens) ==
    \E st \in {ended} :
    Finish(st.heap, [tabs EXCEPT ![slot] = Table(st)], out,
           Call(op, slot, st.err, item, lens))

\* a call that builds a new table ended in state st: dst is bound to the new
\* table when the call returned, and keeps its old value when it raised
Built(dst, op, ended, lens) ==
    \E st \in {ended} :
    Finish(st.heap, IF Failed(st) THEN tabs ELSE [tabs EXCEPT ![dst] = Table(st)],
           out, Call(op, dst, st.err, "", lens))

\* a mapping name -> ndarray given by the caller: its arrays are put on the heap
RECURSIVE PutArrays(_, _, _)
PutArrays(h, m, i) ==
    IF i > Len(m) THEN [heap |-> h, data |-> m]
    ELSE PutArrays(HeapPut(h, m[i].v),
                   [m EXCEPT ![i].v = WholeView(NewId(h), Len(m[i].v.vals))], i + 1)

\* slot = Tafra(m, d)
Construct(slot, m, d) ==
    /\ ~Exists(tabs[slot])
    /\ LET put == PutArrays(heap, m, 1) IN
       Built(slot, "construct", __post_init__(put.heap, put.data, d),
             [i \in DOMAIN m |-> Len(m[i].v.vals)])

\* slot[item] = value, value a new ndarray
SetItem(slot, item, value) ==
    /\ Exists(tabs[slot])
    /\ LET h == HeapPut(heap, value) IN
       Mutated(slot, "setitem",
               __setitem__(Self(h, tabs[slot]), item,
                           WholeView(NewId(heap), Len(value.vals))),
               item, <<Len(value.vals)>>)

\* t.attr = value, value a new ndarray
SetAttr(attr, value) ==
    /\ Exists(tabs["t"])
    /\ \E r \in {__setattr__(Self(HeapPut(heap, value), tabs["t"]), tabs["d"].data,
                              attr, WholeView(NewId(heap), Len(value.vals)))} :
           Finish(r.st.heap,
                  [tabs EXCEPT !["t"] = Table(r.st),
                               !["d"] = [data |-> r.attrs, dtypes |-> EmptyDict]],
                  out, Call("setattr", "t", r.st.err, attr, <<Len(value.vals)>>))

\* g = src.to_records(columns, cast_null): to_records is a generator
\* function, so the call runs none of its body
ToRecords(src, given, columns, cast_null) ==
    /\ Exists(tabs[src])
    /\ Finish(heap, tabs, out,
              [AggCall("g = to_records", src, "none", columns, EmptyDict) EXCEPT
                   !.rec = [given |-> given, cast_null |-> cast_null, tuples |-> <<>>]])

\* tuple(g), g the generator of the to_records call before; again: g has
\* been consumed before
TupleOf(src) ==
    /\ last.op \in {"g = to_records", "tuple(g)"} /\ ~last.again
    /\ \E r \in {RunGenerator(Self(heap, tabs[src]), last.rec.given, last.cols,
                                last.rec.cast_null, last.op = "g = to_records")} :
           Finish(heap, tabs, out,
                  [last EXCEPT !.op = "tuple(g)", !.err = r.err,
                               !.again = (last.op = "tuple(g)"),
                               !.rec.tuples = r.tuples])

\* slot.delete(column)
Delete(slot, column) ==
    /\ Exists(tabs[slot])
    /\ Mutated(slot, "delete", delete(Self(heap, tabs[slot]), column), column, <<>>)

\* slot.update_types(d)
UpdateTypes(slot, d) ==
    /\ Exists(tabs[slot])
    /\ Mutated(slot, "update_types", update_types(Self(heap, tabs[slot]), d), "", <<>>)

\* slot.update(Tafra(m)), where Tafra(m) is built
UpdateFrom(slot, m) ==
    /\ Exists(tabs[slot])
    /\ LET put == PutArrays(heap, m, 1)
           other == __post_init__(put.heap, put.data, EmptyDict)
       IN  /\ ~Failed(other)
           /\ Mutated(slot, "update", update(Self(other.heap, tabs[slot]), Table(other)),
                      "", [i \in DOMAIN m |-> Len(m[i].v.vals)])

\* slot.update(tabs[src])
Update(slot, src) ==
    /\ Exists(tabs[slot]) /\ Exists(tabs[src])
    /\ Mutated(slot, "update", update(Self(heap, tabs[slot]), tabs[src]), "", <<>>)

\* dst = src.copy()
Copy(dst, src) ==
    /\ Exists(tabs[src])
    /\ Built(dst, "copy", copy(Self(heap, tabs[src])), <<>>)

\* dst = src[a:b]
Slice(dst, src, a, b) ==
    /\ Exists(tabs[src])
    /\ Built(dst, "slice", _slice(Self(heap, tabs[src]), a, b), <<>>)

\* dst = src[index], index an ndarray
Index(dst, src, index) ==
    /\ Exists(tabs[src])
    /\ \E st \in {_index(Self(heap, tabs[src]), index)} :
           Finish(st.heap, IF Failed(st) THEN tabs ELSE [tabs EXCEPT ![dst] = Table(st)],
                  out, IndexCall(dst, st.err, index))

\* tab[item][pos] = val: Tafra.__getitem__ of a column name hands out the
\* array itself, and numpy writes the element into it (pos from 0)
SetElement(st, item, pos, val) ==
    IF ~Has(st.data, item) THEN Raise(st, "KeyError")
    ELSE LET ref == Get(st.data, item) IN
         IF pos >= Len(ref.idx) THEN Raise(st, "IndexError")
         ELSE IF IsErr(CastElem(st.heap[ref.buf].dtype, val)) THEN Raise(st, "ValueError")
         ELSE [st EXCEPT !.heap = WriteElem(@, ref, pos, val)]

\* slot[item][pos] = val
Write(slot, item, pos, val) ==
    /\ Exists(tabs[slot])
    /\ \E st \in {SetElement(Self(heap, tabs[slot]), item, pos, val)} :
           Finish(st.heap, tabs, out, WriteCall(slot, 0, st.err, item, pos, val))

\* sub[item][pos] = val, sub the table of the nth tuple an iteration yielded
WriteOut(nth, item, pos, val) ==
    /\ nth \in DOMAIN out
    /\ \E st \in {SetElement(Self(heap, TabOf(out[nth])), item, pos, val)} :
           Finish(st.heap, tabs, out, WriteCall("out", nth, st.err, item, pos, val))

\* Tafra(result) of a dict of new arrays: the state of the new table
TafraOf(h, rs) ==
    IF rs.err # "none" THEN [heap |-> h, data |-> <<>>, dtypes |-> <<>>, err |-> rs.err]
    ELSE LET put == PutArrays(h, rs.res, 1) IN
         __post_init__(put.heap, put.data, EmptyDict)

\* GroupBy(cols, aggregation).apply(tab): the state of the table it returns
GroupByApply(h, tab, cols, aggregation, garbage) ==
    LET agg == AggInit(aggregation)
        tv == Content(h, tab).data
        n == rows(tab.data)
        unique == unique_groups(tv, cols, n)
        result == result_factory(tv, cols, agg, Len(unique), garbage)
    IN  IF AggValidate(tab.data, cols, agg) # "none"
        THEN TafraOf(h, [err |-> AggValidate(tab.data, cols, agg), res |-> <<>>])
        ELSE TafraOf(h, GroupByLoop([err |-> "none", res |-> result],
                                    tv, cols, agg, unique, n, 1))

\* Transform(cols, aggregation).apply(tab): the state of the table it returns
TransformApply(h, tab, cols, aggregation, garbage) ==
    LET agg == AggInit(aggregation)
        tv == Content(h, tab).data
        n == rows(tab.data)
        unique == unique_groups(tv, cols, n)
        result == result_factory(tv, cols, agg, n, garbage)
    IN  IF AggValidate(tab.data, cols, agg) # "none"
        THEN TafraOf(h, [err |-> AggValidate(tab.data, cols, agg), res |-> <<>>])
        ELSE TafraOf(h, TransformLoop([err |-> "none", res |-> result],
                                      tv, cols, agg, unique, n, 1))

\* what IterateBy.apply yields for group i (from 0): the tuple (i, sub-table)
Yielded(i, sub) == <<i, sub>>

\* what group_by and transform return: the table (held as a 1-tuple)
Returned(tab) == <<tab>>

\* the loop of IterateBy.apply over unique, from group i (from 1) on, run to
\* its end: [heap, items, err], the tuples yielded and the exception that
\* ended the iteration
RECURSIVE IterateByLoop(_, _, _, _, _, _)
IterateByLoop(it, tab, tv, cols, unique, i) ==
    IF i > Len(unique) THEN it
    ELSE LET mask == which_rows(tv, cols, unique[i], Len(cols), rows(tab.data))
             sub == _index(Self(it.heap, tab), [ndim |-> 1, kind |-> "bool", vals |-> mask])
         IN  IF Failed(sub) THEN [it EXCEPT !.err = sub.err]
             ELSE IterateByLoop(
                      [it EXCEPT !.heap = sub.heap,
                                 !.items = Append(@, Yielded(i - 1, Table(sub)))],
                      tab, tv, cols, unique, i + 1)

\* list(tab.iterate_by(cols))
IterateByApply(h, tab, cols) ==
    LET tv == Content(h, tab).data
        start == [heap |-> h, items |-> <<>>, err |-> "none"]
    IN  IF AggValidate(tab.data, cols, AggInit(EmptyDict)) # "none"
        THEN [start EXCEPT !.err = "KeyError"]
        ELSE IterateByLoop(start, tab, tv, cols,
                           unique_groups(tv, cols, rows(tab.data)), 1)

\* out = src.group_by(cols, aggregation)
GroupBy(src, cols, aggregation, garbage) ==
    \E st \in {GroupByApply(heap, tabs[src], cols, aggregation, garbage)} :
    Finish(st.heap, tabs, IF Failed(st) THEN <<>> ELSE <<Returned(Table(st))>>,
           AggCall("group_by", src, st.err, cols, aggregation))

\* out = src.transform(cols, aggregation)
Transform(src, cols, aggregation, garbage) ==
    \E st \in {TransformApply(heap, tabs[src], cols, aggregation, garbage)} :
    Finish(st.heap, tabs, IF Failed(st) THEN <<>> ELSE <<Returned(Table(st))>>,
           AggCall("transform", src, st.err, cols, aggregation))

\* out = list(src.iterate_by(cols))
IterateBy(src, cols) ==
    \E it \in {IterateByApply(heap, tabs[src], cols)} :
    Finish(it.heap, tabs, it.items, AggCall("iterate_by", src, it.err, cols, EmptyDict))

\* g = src.iterate_by(cols): iterate_by is a generator function, so the call
\* runs none of its body and hands back the generator g, which holds src and
\* cols; out is what g has yielded so far
IterateByCall(src, cols) ==
    Finish(heap, tabs, <<>>, AggCall("g = iterate_by", src, "none", cols, EmptyDict))

\* next(g) on a generator that has yielded done tuples: [heap, items, err].
\* The first next runs IterateBy.apply from its start to the first yield,
\* every other next runs the loop from the last yield to the next one.
GeneratorNext(h, tab, cols, done) ==
    LET tv == Content(h, tab).data
        start == [heap |-> h, items |-> <<>>, err |-> "none"]
    IN  IF done = 0 /\ AggValidate(tab.data, cols, AggInit(EmptyDict)) # "none"
        THEN [start EXCEPT !.err = "KeyError"]
        ELSE LET unique == unique_groups(tv, cols, rows(tab.data)) IN
             IF done >= Len(unique) THEN [start EXCEPT !.err = "StopIteration"]
             ELSE LET mask == which_rows(tv, cols, unique[done + 1], Len(cols),
                                         rows(tab.data))
                      sub == _index(Self(h, tab),
                                    [ndim |-> 1, kind |-> "bool", vals |-> mask])
                  IN  IF Failed(sub) THEN [start EXCEPT !.err = sub.err]
                      ELSE [heap |-> sub.heap, items |-> <<Yielded(done, Table(sub))>>,
                            err |-> "none"]

\* next(g), g the generator of the iterate_by call before
IterateByNext(src) ==
    /\ last.op \in {"g = iterate_by", "next(g)"} /\ last.err = "none"
    /\ \E it \in {GeneratorNext(heap, tabs[src], last.cols, Len(out))} :
           Finish(it.heap, tabs, out \o it.items,
                  AggCall("next(g)", src, it.err, last.cols, EmptyDict))

(***************************************************************************)
(* The inputs of the calls.                                                *)
(***************************************************************************)
ColNames == {"x", "y"}
\* a name that is no column of any input
Stranger == "q"

Word(i) == IF i % 2 = 1 THEN "one" ELSE "two"

\* the input arrays of n rows: integers 1..n, the words one and two (as
\* unicode and as objects), the numerals "1".."n", and floats led by a NaN
IntArr(n) == Array(D_int64, [i \in 1..n |-> I(i)])
WordArr(n) == Array(D_str, [i \in 1..n |-> S(Word(i))])
ObjArr(n) == Array(D_object, [i \in 1..n |-> S(Word(i))])
NumeralArr(n) == Array(D_str, [i \in 1..n |-> S(IntToStr(i))])
NanArr(n) == Array(D_float64, [i \in 1..n |-> IF i = 1 THEN NaN ELSE F(i)])

InArrays == UNION {{IntArr(n), WordArr(n)} : n \in 0..MaxRows}

\* the mappings name -> value over the names ks, in either order of the keys
Dict1(ks, vs) == {<<[k |-> k, v |-> v]>> : k \in ks, v \in vs}
Dict2(ks, vs) ==
    {<<[k |-> k1, v |-> v1], [k |-> k2, v |-> v2]>> :
        <<k1, k2>> \in {p \in ks \X ks : p[1] # p[2]}, <<v1, v2>> \in vs \X vs}
Dicts(ks, vs) == {EmptyDict} \cup Dict1(ks, vs) \cup Dict2(ks, vs)

\* the dtype arguments: tags, and names that are no tag
N_flot == <<"f", "l", "o", "t">>
N_st == <<"s", "t">>
DTypeNames == {T_int, T_str, N_flot}
DTypeArgs == Dict1({"x"}, DTypeNames)
                 \cup {<<[k |-> Stranger, v |-> T_int]>>,
                       <<[k |-> "x", v |-> T_str], [k |-> "y", v |-> T_int]>>,
                       <<[k |-> "x", v |-> N_flot], [k |-> "y", v |-> N_st]>>}

\* the index arrays: boolean masks and integer positions, and one that is
\* not 1-dimensional
Index1(kind, vals) == [ndim |-> 1, kind |-> kind, vals |-> vals]
BoolSeqs(n) == [1..n -> BOOLEAN]
IndexArgs ==
    {Index1("bool", m) : m \in UNION {BoolSeqs(n) : n \in 0..MaxRows}}
        \cup {Index1("int", <<i>>) : i \in {0, MaxRows}}
        \cup {[ndim |-> 2, kind |-> "int", vals |-> <<0>>]}

(***************************************************************************)
(* Spec: one table t, built from an input mapping and then changed by any  *)
(* sequence of calls; copy, slicing and indexing rebind t to their result. *)
(***************************************************************************)
Init ==
    /\ heap = <<>>
    /\ tabs = [sl \in Slots |-> NoTable]
    /\ last = Call("init", "t", "none", "", <<>>)
    /\ out = <<>>

DoConstruct ==
    /\ ~Exists(tabs["t"])
    /\ \E m \in Dicts(ColNames, InArrays), d \in {EmptyDict} \cup DTypeArgs :
           Construct("t", m, d)
DoSetItem ==
    /\ Exists(tabs["t"])
    /\ \E item \in ColNames, value \in InArrays : SetItem("t", item, value)
DoDelete ==
    /\ Exists(tabs["t"])
    /\ \E column \in ColNames : Delete("t", column)
DoUpdateTypes ==
    /\ Exists(tabs["t"])
    /\ \E d \in DTypeArgs : UpdateTypes("t", d)
DoUpdateFrom ==
    /\ Exists(tabs["t"])
    /\ \E m \in Dict1(ColNames, InArrays) : UpdateFrom("t", m)
DoCopy == Copy("t", "t")
DoSlice ==
    /\ Exists(tabs["t"])
    /\ \E a \in 0..MaxRows, b \in 0..MaxRows : a <= b /\ Slice("t", "t", a, b)
DoIndex ==
    /\ Exists(tabs["t"])
    /\ \E index \in IndexArgs : Index("t", "t", index)

Next ==
    \/ DoConstruct
    \/ DoSetItem
    \/ DoDelete
    \/ DoUpdateTypes
    \/ DoUpdateFrom
    \/ DoCopy
    \/ DoSlice
    \/ DoIndex

Spec == Init /\ [][Next]_vars

(***************************************************************************)
(* SpecAgg: group_by, transform and iterate_by as functions of a table.    *)
(* Init draws the table t; each behaviour makes one call on it.            *)
(***************************************************************************)
\* longest column of the tables the aggregations are applied to
AggRows == 2

SeqsOver(vals, n) == [1..n -> vals]

\* the table of the module's __main__ example (and of the tests' build_tafra)
ExampleMap ==
    <<[k |-> "x", v |-> IntArr(6)],
      [k |-> "y", v |-> ObjArr(6)],
      [k |-> "z", v |-> Array(D_int64, <<I(0), I(0), I(0), I(1), I(1), I(1)>>)]>>

\* the tables of n rows: x the integers 1..n; y words, as unicode or as
\* objects, or floats that may be NaN; z integers 0 and 1
AggMaps(n) ==
    {<<[k |-> "x", v |-> IntArr(n)], [k |-> "y", v |-> y], [k |-> "z", v |-> z]>> :
        y \in {Array(D_str, w) : w \in SeqsOver({S("one"), S("two")}, n)}
                \cup {Array(D_object, w) : w \in SeqsOver({S("one"), S("two")}, n)}
                \cup {Array(D_float64, w) : w \in SeqsOver({NaN, F(1)}, n)},
        z \in {Array(D_int64, w) : w \in SeqsOver({I(0), I(1)}, n)}}

AggInputs == {ExampleMap} \cup UNION {AggMaps(n) : n \in 0..AggRows}

\* the group-by column lists, one of them naming no column
GroupCols == {<<>>, <<"y">>, <<"z">>, <<"y", "z">>, <<"z", "y">>, <<Stranger>>}

Fn(fn) == [fn |-> fn, col |-> "", pair |-> FALSE]
FnOf(fn, col) == [fn |-> fn, col |-> col, pair |-> TRUE]

\* the aggregation arguments
Aggregations ==
    {EmptyDict,
     <<[k |-> "x", v |-> Fn("sum")]>>,
     <<[k |-> "x", v |-> Fn("sum")], [k |-> "new_x", v |-> FnOf("sum", "x")]>>,
     <<[k |-> "count", v |-> FnOf("len", "y")]>>,
     <<[k |-> "id", v |-> FnOf("max", "x")]>>,
     <<[k |-> "top", v |-> FnOf("max", "y")]>>,
     <<[k |-> "total", v |-> FnOf("sum", "y")]>>,
     <<[k |-> "x", v |-> FnOf("sum", Stranger)]>>}

\* what np.empty may find in memory
Garbage == {I(0), I(7)}

InitAgg ==
    \E m \in AggInputs :
        LET put == PutArrays(<<>>, m, 1)
            st == __post_init__(put.heap, put.data, EmptyDict)
            c == Collect(st.heap, [sl \in Slots |-> IF sl = "t" THEN Table(st) ELSE NoTable],
                         <<>>)
        IN  /\ heap = c.heap
            /\ tabs = c.tabs
            /\ last = Call("init", "t", "none", "", <<>>)
            /\ out = <<>>

AggGroupBy ==
    /\ last.op = "init"
    /\ \E cols \in GroupCols, aggregation \in Aggregations, g \in Garbage :
           GroupBy("t", cols, aggregation, g)
AggTransform ==
    /\ last.op = "init"
    /\ \E cols \in GroupCols, aggregation \in Aggregations, g \in Garbage :
           Transform("t", cols, aggregation, g)
AggIterateBy ==
    /\ last.op = "init"
    /\ \E cols \in GroupCols : IterateBy("t", cols)
AggIterateByCall ==
    /\ last.op = "init"
    /\ \E cols \in GroupCols : IterateByCall("t", cols)
AggNext == IterateByNext("t")

NextAgg ==
    \/ AggGroupBy
    \/ AggTransform
    \/ AggIterateBy
    \/ AggIterateByCall
    \/ AggNext

SpecAgg == InitAgg /\ [][NextAgg]_vars

(***************************************************************************)
(* Properties of Spec.                                                     *)
(***************************************************************************)
\* the columns of every table have one length, and rows is that length
RowsAgree ==
    \A sl \in Slots :
        Exists(tabs[sl]) =>
            \A i \in DOMAIN tabs[sl].data :
                Len(Read(heap, tabs[sl].data[i].v).vals) = rows(tabs[sl].data)

\* the step was a construction from arrays of different lengths, or an
\* assignment of an array whose length differs from that of another column
BreaksRows ==
    \/ /\ last'.op = "construct"
       /\ \E i, j \in DOMAIN last'.lens : last'.lens[i] # last'.lens[j]
    \/ /\ last'.op = "setitem"
       /\ \E i \in DOMAIN tabs[last'.slot].data :
              /\ tabs[last'.slot].data[i].k # last'.item
              /\ Len(tabs[last'.slot].data[i].v.idx) # last'.lens[1]

RowsKept ==
    BreaksRows => last'.err = "RowCountError" /\ tabs' = tabs /\ heap' = heap

\* C1: in every reachable state all columns of a table have the same length
\* and rows equals it (0 without columns); a construction or assignment that
\* would break this fails with the row-count error and changes nothing.
C1_RowCounts == []RowsAgree /\ [][RowsKept]_vars

\* an assignment to a table of two columns was refused for its length
C1_Witness ==
    /\ last.op = "setitem" /\ last.err = "RowCountError"
    /\ Len(tabs["t"].data) > 1 /\ rows(tabs["t"].data) > 0

\* C2: in every reachable state of a table the names of the data mapping are
\* the names of the dtypes mapping.
C2_KeysAgree ==
    \A sl \in Slots :
        Exists(tabs[sl]) => Keys(tabs[sl].data) = Keys(tabs[sl].dtypes)

\* C10: a call of update_types that fails leaves the table as it was: no
\* column array replaced, no entry of the dtypes mapping added or changed.
C10_FailedUpdateTypes ==
    [][(last'.op = "update_types" /\ last'.err # "none") =>
           Content(heap', tabs'[last'.slot]) = Content(heap, tabs[last'.slot])]_vars

\* the column item of the table of slot after the step: its array, and the
\* tag recorded for it
Stored(slot, item) == Read(heap', Get(tabs'[slot].data, item))
StoredTag(slot, item) == Get(tabs'[slot].dtypes, item)

\* C11: t[name] = value on a table with columns requires len(value) = rows
\* and fails with the row-count error, the table unchanged, on a mismatch; on
\* a table without columns a value of any length is accepted; on success the
\* column is stored and its tag is set from the value's element kind.
C11_SetColumn ==
    [][last'.op = "setitem" =>
           IF tabs[last'.slot].data # EmptyDict
                  /\ last'.lens[1] # rows(tabs[last'.slot].data)
           THEN /\ last'.err = "RowCountError"
                /\ Content(heap', tabs'[last'.slot]) = Content(heap, tabs[last'.slot])
           ELSE /\ last'.err = "none"
                /\ Has(tabs'[last'.slot].data, last'.item)
                /\ Len(Stored(last'.slot, last'.item).vals) = last'.lens[1]
                /\ StoredTag(last'.slot, last'.item)
                       = _format_type(Stored(last'.slot, last'.item).dtype)]_vars

(***************************************************************************)
(* Properties of SpecAgg.  The table the call was made on is t; the call   *)
(* and its arguments are in last, and what it handed back is in out.       *)
(***************************************************************************)
\* the arrays of t by name, and its number of rows
Arg == Content(heap, tabs["t"]).data
ArgRows == rows(tabs["t"].data)

\* the group-by columns of the call are columns of t
ColsExist == \A k \in DOMAIN last.cols : Has(Arg, last.cols[k])

\* the group key of row r (from 1) of t
RowKey(r) == [k \in DOMAIN last.cols |-> Get(Arg, last.cols[k]).vals[r]]

\* the rows of t in the group of key u, ascending
RowsOf(u) == SelectSeq([q \in 1..ArgRows |-> q], LAMBDA q : KeyEq(RowKey(q), u))

\* the rows of t at which a group key occurs first, ascending
FirstRows ==
    SelectSeq([r \in 1..ArgRows |-> r],
              LAMBDA r : \A q \in 1..(r - 1) : ~KeyEq(RowKey(q), RowKey(r)))

\* the values of column col of t in the rows of the group of row r
GroupVals(col, r) ==
    LET rs == RowsOf(RowKey(r)) IN [j \in DOMAIN rs |-> Get(Arg, col).vals[rs[j]]]

\* the source column of an item of the aggregation argument
SrcCol(e) == IF e.v.pair THEN e.v.col ELSE e.k

\* a and b are the same scalar: identical, or numbers of one value
Same(a, b) == a = b \/ PyEq(a, b)

\* the arrays by name of the table that group_by or transform returned
Res == Content(heap, TabOf(out[1])).data

\* C5: for a non-empty list of existing group-by columns, every row of the
\* table is in the row mask of exactly one of the unique group keys.
C5_MasksPartition ==
    (last.op \in {"group_by", "transform", "iterate_by"}
         /\ last.cols # <<>> /\ ColsExist) =>
        LET unique == unique_groups(Arg, last.cols, ArgRows)
            mask(i) == which_rows(Arg, last.cols, unique[i], Len(last.cols), ArgRows)
        IN  \A r \in 1..ArgRows : Cardinality({i \in DOMAIN unique : mask(i)[r]}) = 1

\* C6: the table group_by returns has one row per distinct group key, in the
\* order of the keys' first occurrence; row i holds the i-th key in the
\* group-by columns and, in every aggregation column, the reduction of the
\* source column over the rows of that key.
C6_GroupByRows ==
    (last.op = "group_by" /\ last.err = "none") =>
        /\ rows(TabOf(out[1]).data) = Len(FirstRows)
        /\ \A i \in DOMAIN FirstRows :
               /\ \A k \in DOMAIN last.cols :
                      Same(Get(Res, last.cols[k]).vals[i], RowKey(FirstRows[i])[k])
               /\ \A j \in DOMAIN last.agg :
                      Same(Get(Res, last.agg[j].k).vals[i],
                           Reduce(last.agg[j].v.fn,
                                  GroupVals(SrcCol(last.agg[j]), FirstRows[i])))

\* C7: the table transform returns has the rows of the input in their order:
\* row i holds the input's values in the group-by columns and, in every
\* aggregation column, the reduction of the source column over the rows of
\* row i's group.
C7_TransformRows ==
    (last.op = "transform" /\ last.err = "none") =>
        /\ rows(TabOf(out[1]).data) = ArgRows
        /\ \A i \in 1..ArgRows :
               /\ \A k \in DOMAIN last.cols :
                      Same(Get(Res, last.cols[k]).vals[i], RowKey(i)[k])
               /\ \A j \in DOMAIN last.agg :
                      Same(Get(Res, last.agg[j].k).vals[i],
                           Reduce(last.agg[j].v.fn, GroupVals(SrcCol(last.agg[j]), i)))

\* C8: iterate_by yields one triple per distinct group key, in the order of
\* the keys' first occurrence: the group's index, its row mask, and the
\* sub-table of the rows of the input the mask selects, in their order.
C8_IterateByTriples ==
    (last.op = "iterate_by" /\ last.err = "none") =>
        /\ Len(out) = Len(FirstRows)
        /\ \A j \in DOMAIN out :
               /\ Len(out[j]) = 3
               /\ out[j][1] = j - 1
               /\ out[j][2] = [q \in 1..ArgRows |-> KeyEq(RowKey(q), RowKey(FirstRows[j]))]
               /\ Content(heap, out[j][3]).data =
                      [c \in DOMAIN Arg |->
                          [k |-> Arg[c].k,
                           v |-> Array(Arg[c].v.dtype, GroupVals(Arg[c].k, FirstRows[j]))]]

\* the call group_by(['y', 'z'], {'x': sum}) on the example table
ExampleCall ==
    /\ last.op = "group_by" /\ Arg = ExampleMap
    /\ last.cols = <<"y", "z">> /\ last.agg = <<[k |-> "x", v |-> Fn("sum")]>>

\* the call returned a table of the groups ys, zs with the sums xs
ExampleGives(ys, zs, xs) ==
    /\ last.err = "none"
    /\ Get(Res, "y").vals = [i \in DOMAIN ys |-> S(ys[i])]
    /\ Get(Res, "z").vals = [i \in DOMAIN zs |-> I(zs[i])]
    /\ Get(Res, "x").vals = [i \in DOMAIN xs |-> I(xs[i])]

\* C9: on the example table group_by(['y', 'z'], {'x': sum}) returns 4 rows,
\* for the groups (one,0), (two,0), (two,1), (one,1) in that order, with the
\* x sums 4, 2, 10, 5.
C9_ExampleSums ==
    ExampleCall =>
        ExampleGives(<<"one", "two", "two", "one">>, <<0, 0, 1, 1>>, <<4, 2, 10, 5>>)

\* the example call returned a table of 4 rows
C9_Witness == ExampleCall /\ last.err = "none" /\ rows(TabOf(out[1]).data) = 4

\* C9 as stated: the x sums are 3, 2, 9, 5
C9_Original ==
    ExampleCall =>
        ExampleGives(<<"one", "two", "two", "one">>, <<0, 0, 1, 1>>, <<3, 2, 9, 5>>)

\* the tag of the element type numpy infers for an array of values like v
KindTag(v) ==
    CASE v.ty = "int" -> T_int
      [] v.ty = "float" -> T_float
      [] v.ty = "str" -> T_str
      [] OTHER -> T_object

\* C17: in the table group_by returns, the element type and the tag of every
\* aggregation column are those of the values its reduction returned,
\* whatever the type of the source column (a count over a str column is int).
C17_ResultTypes ==
    (last.op = "group_by" /\ last.err = "none") =>
        \A j \in DOMAIN last.agg : \A i \in 1..rows(TabOf(out[1]).data) :
            \E v \in {Reduce(last.agg[j].v.fn, GroupVals(SrcCol(last.agg[j]), FirstRows[i]))} :
                /\ _format_type(Get(Res, last.agg[j].k).dtype) = KindTag(v)
                /\ Get(TabOf(out[1]).dtypes, last.agg[j].k) = KindTag(v)

\* the aggregation source columns of the call are columns of t
SourcesExist == \A j \in DOMAIN last.agg : Has(Arg, SrcCol(last.agg[j]))

\* C20: with an empty list of group-by columns there are no groups, whatever
\* the rows of the table: unique_groups returns the empty list, group_by
\* returns a table of 0 rows, iterate_by yields nothing, and transform calls
\* no reduction and writes no row of its output columns.
C20_NoGroupColumns ==
    (last.op \in {"group_by", "transform", "iterate_by"}
         /\ last.cols = <<>> /\ SourcesExist) =>
        /\ unique_groups(Arg, last.cols, ArgRows) = <<>>
        /\ last.err = "none"
        /\ last.op = "group_by" =>
               /\ rows(TabOf(out[1]).data) = 0
               /\ Keys(Res) = {last.agg[j].k : j \in DOMAIN last.agg}
        /\ last.op = "iterate_by" => out = <<>>
        /\ last.op = "transform" =>
               \E g \in Garbage : \A j \in DOMAIN last.agg :
                   Get(Res, last.agg[j].k)
                       = NpEmpty(ArgRows, Get(Arg, SrcCol(last.agg[j])).dtype, g)

\* transform([], {'total': (sum, 'y')}) on a table of rows whose y holds
\* strings, which sum cannot add, returned
C20_Witness ==
    /\ last.op = "transform" /\ last.cols = <<>> /\ last.err = "none"
    /\ last.agg = <<[k |-> "total", v |-> FnOf("sum", "y")]>>
    /\ ArgRows = AggRows /\ Get(Arg, "y").dtype = D_str

\* the call names a group-by column or an aggregation source column that t
\* does not have
NamesAbsent ==
    \/ \E k \in DOMAIN last'.cols : ~Has(tabs["t"].data, last'.cols[k])
    \/ \E j \in DOMAIN last'.agg : ~Has(tabs["t"].data, SrcCol(last'.agg[j]))

\* C13: a call of group_by, transform or iterate_by that names an absent
\* column fails with KeyError at the call itself, before an output array is
\* allocated and before a result is handed back; a call that names only
\* columns of the table raises no KeyError.
C13_KeyErrorAtCall ==
    [][last'.op \in {"group_by", "transform", "g = iterate_by"} =>
           IF NamesAbsent
           THEN last'.err = "KeyError" /\ heap' = heap /\ out' = <<>>
           ELSE last'.err # "KeyError"]_vars

(***************************************************************************)
(* SpecAlias: a table t, one table derived from it or merged into it (the  *)
(* copy c, the row selection s = t[index], the slice v = t[a:b], the       *)
(* sub-tables an iteration over its groups yielded, in out, or the table u *)
(* of t.update(u)) and then any sequence of changes to either.             *)
(***************************************************************************)
\* longest column of the table t of SpecAlias
AliasRows == 2

AliasInputs ==
    {<<[k |-> "x", v |-> IntArr(n)], [k |-> "y", v |-> WordArr(n)]>> : n \in 1..AliasRows}

\* boolean masks of the table's length or one short of it, and positions
AliasIndexes ==
    {Index1("bool", m) : m \in UNION {BoolSeqs(n) : n \in (AliasRows - 1)..AliasRows}}
        \cup {Index1("int", <<i>>) : i \in 0..(AliasRows - 1)}
        \cup {Index1("int", <<AliasRows - 1, 0>>)}

\* the values written into elements: an integer no input holds
WriteVals == {I(0)}

InitAlias ==
    \E m \in AliasInputs :
        LET put == PutArrays(<<>>, m, 1)
            st == __post_init__(put.heap, put.data, EmptyDict)
            c == Collect(st.heap, [sl \in Slots |-> IF sl = "t" THEN Table(st) ELSE NoTable],
                         <<>>)
        IN  /\ heap = c.heap
            /\ tabs = c.tabs
            /\ last = Call("init", "t", "none", "", <<>>)
            /\ out = <<>>

\* no table has been derived from t yet
NoDerived == out = <<>> /\ \A sl \in Slots \ {"t"} : ~Exists(tabs[sl])

AliasCopy == NoDerived /\ Copy("c", "t")
AliasIndex == NoDerived /\ \E index \in AliasIndexes : Index("s", "t", index)
AliasSlice ==
    /\ NoDerived
    /\ \E a \in 0..AliasRows, b \in 0..AliasRows : a <= b /\ Slice("v", "t", a, b)
AliasOther == NoDerived /\ \E m \in AliasInputs : Construct("u", m, EmptyDict)
AliasUpdate == Exists(tabs["u"]) /\ Update("t", "u")
AliasIterateBy == NoDerived /\ \E cols \in {<<"x">>, <<"y">>} : IterateBy("t", cols)
AliasWrite ==
    /\ ~NoDerived
    /\ \E slot \in Slots, pos \in 0..AliasRows, val \in WriteVals :
           Write(slot, "x", pos, val)
AliasWriteOut ==
    \E nth \in DOMAIN out, pos \in 0..AliasRows, val \in WriteVals :
        WriteOut(nth, "x", pos, val)
AliasSetItem ==
    /\ Exists(tabs["c"])
    /\ \E slot \in {"t", "c"}, value \in {WordArr(n) : n \in (AliasRows - 1)..AliasRows} :
           SetItem(slot, "y", value)
AliasDelete ==
    /\ Exists(tabs["c"])
    /\ \E slot \in {"t", "c"} : Delete(slot, "y")
AliasUpdateTypes ==
    /\ Exists(tabs["c"])
    /\ \E slot \in {"t", "c"}, ty \in {T_str, N_flot} :
           UpdateTypes(slot, <<[k |-> "x", v |-> ty]>>)

NextAlias ==
    \/ AliasCopy
    \/ AliasIndex
    \/ AliasSlice
    \/ AliasOther
    \/ AliasUpdate
    \/ AliasIterateBy
    \/ AliasWrite
    \/ AliasWriteOut
    \/ AliasSetItem
    \/ AliasDelete
    \/ AliasUpdateTypes

SpecAlias == InitAlias /\ [][NextAlias]_vars

(***************************************************************************)
(* Properties of SpecAlias.                                                *)
(***************************************************************************)
\* the step was an element write, a column assignment, a delete or an
\* update_types on the table of slot
Changes(slot) ==
    last'.op \in {"write", "setitem", "delete", "update_types"} /\ last'.slot = slot

\* the step left the arrays and the tags of the table of slot as they were
Keeps(slot) == Content(heap', tabs'[slot]) = Content(heap, tabs[slot])

\* C3: after c = t.copy(), an element write, column assignment, delete or
\* update_types applied to c leaves every column array and every tag of t
\* unchanged, and any such change to t leaves c unchanged.
C3_CopyIndependent ==
    [][Exists(tabs["c"]) =>
           /\ Changes("c") => Keeps("t")
           /\ Changes("t") => Keeps("c")]_vars

\* an element of the copy was written, and the copy differs from t
C3_Witness ==
    /\ last.op = "write" /\ last.slot = "c" /\ last.err = "none"
    /\ Content(heap, tabs["c"]) # Content(heap, tabs["t"])

\* the step was an element write into the table s = t[index] right after the
\* selection, or into a sub-table right after the iteration that yielded it
WroteSelection ==
    /\ last'.op = "write" /\ last'.err = "none"
    /\ \/ last.op = "index" /\ last'.slot = "s"
       \/ last.op = "iterate_by" /\ last'.slot = "out"

\* the row of t (from 1) that the row written was selected from
RowWritten ==
    IF last.op = "index"
    THEN Selected(last.index)[last'.elem.pos + 1] + 1
    ELSE RowsOf(RowKey(FirstRows[last'.elem.nth]))[last'.elem.pos + 1]

\* the table that was written into
SubWritten == IF last'.slot = "s" THEN tabs'["s"] ELSE TabOf(out'[last'.elem.nth])

TypeRows == 1

ComplexArr(n) == Array(D_complex128, [i \in 1..n |-> J(i)])

TypeArrays ==
    {IntArr(TypeRows), WordArr(TypeRows), ObjArr(TypeRows), NumeralArr(TypeRows),
     NanArr(TypeRows), ComplexArr(TypeRows)}

\* the input mappings: a column x of any element kind, alone or before a
\* column y of words
TypeMaps ==
    Dict1({"x"}, TypeArrays)
        \cup {<<[k |-> "x", v |-> a], [k |-> "y", v |-> WordArr(TypeRows)]>> : a \in TypeArrays}

\* the dtype names: tags, the name of a numpy type that holds a tag, and
\* names that hold none
TypeNames == {T_int, T_float, T_str, T_object, D_int64, N_flot, D_complex128}
TypeArgs ==
    Dict1({"x"}, TypeNames)
        \cup {<<[k |-> Stranger, v |-> T_int]>>,
              <<[k |-> "x", v |-> T_str], [k |-> "y", v |-> T_int]>>,
              <<[k |-> "x", v |-> N_flot], [k |-> "y", v |-> N_st]>>}

\* slot = Tafra(m, d)
ConstructTyped(slot, m, d) ==
    /\ ~Exists(tabs[slot])
    /\ \E put \in {PutArrays(heap, m, 1)} :
       \E st \in {__post_init__(put.heap, put.data, d)} :
           Finish(st.heap, IF Failed(st) THEN tabs ELSE [tabs EXCEPT ![slot] = Table(st)],
                  out, DTypesCall("construct", slot, st.err,
                                  [i \in DOMAIN m |-> Len(m[i].v.vals)], d, FALSE))

\* slot.update_types(d)
UpdateTypesOf(slot, d) ==
    /\ Exists(tabs[slot])
    /\ \E st \in {update_types(Self(heap, tabs[slot]), d)} :
           Finish(st.heap, [tabs EXCEPT ![slot] = Table(st)], out,
                  DTypesCall("update_types", slot, st.err, <<>>, d,
                             last.op = "update_types" /\ last.dtypes = d))

TypesConstruct ==
    \E m \in TypeMaps, d \in {EmptyDict} \cup TypeArgs : ConstructTyped("t", m, d)
TypesSetItem == \E value \in TypeArrays : SetItem("t", "x", value)
TypesUpdateTypes == \E d \in TypeArgs : UpdateTypesOf("t", d)

NextTypes ==
    \/ TypesConstruct
    \/ TypesSetItem
    \/ TypesUpdateTypes

SpecTypes == Init /\ [][NextTypes]_vars

(***************************************************************************)
(* Properties of SpecTypes.                                                *)
(***************************************************************************)
\* the dtype names of the call's argument in which _format_type finds no tag
Invalid ==
    {n \in {last'.dtypes[i].v : i \in DOMAIN last'.dtypes} : _format_type(n) \notin TAFRA_TYPE}

\* the tags a table records
Tags(tab) == IF Exists(tab) THEN {tab.dtypes[i].v : i \in DOMAIN tab.dtypes} ELSE {}

\* C12: a dtype name that denotes no tag (such as flot or st), given to
\* update_types or to the constructor, makes the call fail with a type or
\* validation error, and the call does not record it as a tag of the table.
C12_InvalidNames ==
    [][(last'.op \in {"construct", "update_types"} /\ Invalid # {}) =>
           /\ last'.err \in {"TypeError", "ValueError"}
           /\ Invalid \cap Tags(tabs'[last'.slot]) \subseteq Tags(tabs[last'.slot])]_vars

\* C15: in every reachable state every value of the dtypes mapping of a table
\* is one of the six tags int, float, bool, str, date, object.
C15_TagsCanonical ==
    \A sl \in Slots :
        Exists(tabs[sl]) =>
            \A i \in DOMAIN tabs[sl].dtypes : tabs[sl].dtypes[i].v \in TAFRA_TYPE

\* C16: update_types is idempotent: update_types(d) with valid tags d, called
\* right after the same call, leaves the column values and the tags as the
\* first call left them, and ends as the first call ended.
C16_UpdateTypesIdempotent ==
    [][(last'.op = "update_types" /\ last'.again
            /\ \A i \in DOMAIN last'.dtypes : last'.dtypes[i].v \in TAFRA_TYPE) =>
           /\ Content(heap', tabs'[last'.slot]) = Content(heap, tabs[last'.slot])
           /\ last'.err = last.err]_vars

\* update_types({'x': 'int'}) was called twice on a float column holding NaN,
\* which the first call cast to int
C16_Witness ==
    /\ last.op = "update_types" /\ last.again /\ last.err = "none"
    /\ last.dtypes = <<[k |-> "x", v |-> T_int]>>
    /\ Content(heap, tabs["t"]).data[1].v = Array(D_int64, [i \in 1..TypeRows |-> IF i = 1 THEN IntOfNaN ELSE I(i)])

(***************************************************************************)
(* More properties of SpecAlias.                                           *)
(***************************************************************************)
\* the array buffers the table of slot shows
Buffers(slot) ==
    IF Exists(tabs[slot]) THEN {tabs[slot].data[i].v.buf : i \in DOMAIN tabs[slot].data}
    ELSE {}

\* no two tables show one array
NoSharedArray == \A a, b \in Slots : a # b => Buffers(a) \cap Buffers(b) = {}

\* the step, if an element write into a table, left every other table as it was
WriteKeepsOthers ==
    (last'.op = "write" /\ last'.slot \in Slots) =>
        \A sl \in Slots \ {last'.slot} : Keeps(sl)

\* C18: no two distinct tables share a column array: also after t.update(u)
\* and after v = t[a:b], an element write into a column of one table is not
\* visible in any other table.
C18_NoSharedArrays == []NoSharedArray /\ [][WriteKeepsOthers]_vars

(***************************************************************************)
(* SpecAttr: a table t and any sequence of attribute writes t.name = value *)
(* and item writes t[name] = value.                                        *)
(***************************************************************************)
\* longest array of SpecAttr
AttrRows == 2

\* the arrays assigned: words, unlike the integers of column x
AttrArrays == {WordArr(n) : n \in 0..AttrRows}

InitAttr ==
    \E m \in {<<[k |-> "x", v |-> IntArr(n)], [k |-> "y", v |-> WordArr(n)]>> :
                  n \in 1..AttrRows} :
        LET put == PutArrays(<<>>, m, 1)
            st == __post_init__(put.heap, put.data, EmptyDict)
        IN  /\ heap = st.heap
            /\ tabs = [sl \in Slots |->
                          IF sl = "t" THEN Table(st)
                          ELSE IF sl = "d" THEN [data |-> EmptyDict, dtypes |-> EmptyDict]
                          ELSE NoTable]
            /\ last = Call("init", "t", "none", "", <<>>)
            /\ out = <<>>

AttrSet == \E attr \in {"x", "_init"}, value \in AttrArrays : SetAttr(attr, value)
AttrSetItem == \E value \in AttrArrays : SetItem("t", "x", value)

NextAttr ==
    \/ AttrSet
    \/ AttrSetItem

SpecAttr == InitAttr /\ [][NextAttr]_vars

(***************************************************************************)
(* Properties of SpecAttr.                                                 *)
(***************************************************************************)
\* t.name reads the array that t[name] reads, for every column of t
ReadsAgree ==
    \A i \in DOMAIN tabs["t"].data :
        getattr(Self(heap, tabs["t"]), tabs["d"].data, tabs["t"].data[i].k)
            = tabs["t"].data[i].v

\* the step, if an attribute write, did what the item write does: it raised
\* the row-count error and changed nothing, or stored the column and its tag
SetAttrSetsColumn ==
    last'.op = "setattr" =>
        IF last'.lens[1] # rows(tabs["t"].data)
        THEN last'.err = "RowCountError" /\ Keeps("t")
        ELSE /\ last'.err = "none"
             /\ Has(tabs'["t"].data, last'.item)
             /\ Len(Stored("t", last'.item).vals) = last'.lens[1]
             /\ StoredTag("t", last'.item) = _format_type(Stored("t", last'.item).dtype)

\* C19: on a constructed table t.name = value sets column name as
\* t[name] = value does, and t.name reads the array t[name] reads: after any
\* sequence of attribute writes and item writes the reads agree.
C19_AttributesAreColumns == []ReadsAgree /\ [][SetAttrSetsColumn]_vars

(***************************************************************************)
(* SpecRec: to_records as a function of a table.  Init draws the table t   *)
(* (as SpecAgg); each behaviour makes one call and consumes what it handed *)
(* back, twice.                                                            *)
(***************************************************************************)
\* the columns arguments: lists of columns, one of them naming no column
RecColumns == {<<"x">>, <<"y", "x">>, <<"x", "y", "z">>, <<Stranger>>, <<>>}

RecToRecords ==
    /\ last.op = "init"
    /\ \/ \E cast_null \in BOOLEAN : ToRecords("t", FALSE, <<>>, cast_null)
       \/ \E columns \in RecColumns, cast_null \in BOOLEAN :
              ToRecords("t", TRUE, columns, cast_null)
RecTuple == TupleOf("t")

NextRec ==
    \/ RecToRecords
    \/ RecTuple

SpecRec == InitAgg /\ [][NextRec]_vars

(***************************************************************************)
(* Properties of SpecRec.                                                  *)
(***************************************************************************)
\* the columns the call asked for: all of them when columns is None
Requested ==
    IF last.rec.given THEN last.cols ELSE [i \in DOMAIN Arg |-> Arg[i].k]

\* the record of the value v of a column of tag tag: strings for str and
\* object columns, None for a NaN under cast_null
Rendered(tag, v) ==
    IF last.rec.cast_null /\ IsNaN(v) THEN None
    ELSE IF tag \in {T_str, T_object} THEN S(PyStr(v))
    ELSE v

\* one tuple per row of t, row i with the records of the i-th values of the
\* requested columns in their order
RowTuples ==
    [i \in 1..ArgRows |->
        [k \in DOMAIN Requested |->
            Rendered(Get(tabs["t"].dtypes, Requested[k]), Get(Arg, Requested[k]).vals[i])]]

\* tuple(g) was called on the generator of a to_records call that asked for
\* columns of t
Consumed == last.op = "tuple(g)" /\ \A k \in DOMAIN Requested : Has(Arg, Requested[k])

====
